---------------------------- MODULE Spec2Model ----------------------------
(***************************************************************************)
(* Model of Task/main.cpp: the recursive binary exponentiation binPow on   *)
(* long long, and RunMain, which reads two integers from standard input    *)
(* and prints binPow(number, power).                                       *)
(*                                                                         *)
(* A long long is 64 bits wide.  TLC's integers are narrower, so a long    *)
(* long is kept as its two's-complement bit pattern: a little-endian       *)
(* sequence of Limbs limbs, each in 0 .. Radix-1.  All arithmetic of the   *)
(* program is done on that representation, at full width.                  *)
(***************************************************************************)
EXTENDS Integers, Sequences, FiniteSets, TLC

\* Representation of long long: 8 limbs of 8 bits.
Radix == 256
Limbs == 8

\* Bounds of the inputs that are enumerated.
MaxExp == 66
MaxNegExp == 9
MaxBigExp == 4

(***************************************************************************)
(* Unsigned limb arithmetic (little-endian sequences of limbs).            *)
(***************************************************************************)
\* The function f on 1..n as the sequence <<f[1], ..., f[n]>>.
AsSeq(f) == <<>> \o f

Zeros(k) == AsSeq([i \in 1..k |-> 0])

RECURSIVE NatLimbs(_, _)
\* The k low limbs of the natural number v.
NatLimbs(v, k) == IF k = 0 THEN <<>> ELSE <<v % Radix>> \o NatLimbs(v \div Radix, k - 1)

IsZero(w) == \A i \in 1..Len(w) : w[i] = 0

\* w + 1 on Len(w) limbs: the carry reaches limb i when every lower limb is
\* full; a carry out of the top limb is dropped.
AddOne(w) ==
  AsSeq([i \in 1..Len(w) |->
           (w[i] + (IF \A j \in 1..(i - 1) : w[j] = Radix - 1 THEN 1 ELSE 0)) % Radix])

\* w - 1 on Len(w) limbs: the borrow reaches limb i when every lower limb is
\* zero; a borrow out of the top limb is dropped.
SubOne(w) ==
  AsSeq([i \in 1..Len(w) |->
           (w[i] - (IF \A j \in 1..(i - 1) : w[j] = 0 THEN 1 ELSE 0)) % Radix])

\* One round of carrying: each column keeps its low limb and receives what
\* the column below carries out; what the top column carries out is dropped.
CarryRound(v) ==
  AsSeq([k \in 1..Len(v) |->
           (v[k] % Radix) + (IF k > 1 THEN v[k - 1] \div Radix ELSE 0)])

\* The limbs of columns that are each below 2 * Radix - 1: column k receives
\* a carry when a column below it overflows and every column between is full.
Ripple(v) ==
  IF \A k \in 1..Len(v) : v[k] < Radix THEN v
  ELSE AsSeq([k \in 1..Len(v) |->
                (v[k] + (IF \E j \in 1..(k - 1) :
                              /\ v[j] >= Radix
                              /\ \A m \in (j + 1)..(k - 1) : v[m] = Radix - 1
                         THEN 1 ELSE 0)) % Radix])

\* The limbs of the number whose columns are v (each column below Radix^3):
\* three rounds bring every column below Radix + 3, the ripple does the rest.
Normalize(v) == Ripple(CarryRound(CarryRound(CarryRound(v))))

\* w * m + c on Len(w) limbs (m, c small naturals); the carry out is dropped.
MulSmallAdd(w, m, c) ==
  IF w = <<>> THEN <<>>
  ELSE Normalize(AsSeq([i \in 1..Len(w) |-> w[i] * m + (IF i = 1 THEN c ELSE 0)]))

RECURSIVE ColSum(_, _, _, _)
\* The sum of x[i] * y[k+1-i] over the i >= lo for which both limbs exist.
ColSum(x, y, k, lo) ==
  IF lo > Len(x) \/ lo > k THEN 0
  ELSE x[lo] * y[k + 1 - lo] + ColSum(x, y, k, lo + 1)

\* The full product of two limb sequences, on Len(x) + Len(y) limbs (the
\* shorter of at most Radix limbs, so that every column sum is below Radix^3).
NatMul(x, y) ==
  IF x = <<>> \/ y = <<>> THEN <<>>
  ELSE Normalize(AsSeq([k \in 1..(Len(x) + Len(y)) |->
                          ColSum(x, y, k, IF k > Len(y) THEN k + 1 - Len(y) ELSE 1)]))

RECURSIVE RemFrom(_, _, _)
\* The remainder of the number on the limbs w[i..Len(w)] when divided by d.
RemFrom(w, d, i) ==
  IF i > Len(w) THEN 0 ELSE (RemFrom(w, d, i + 1) * Radix + w[i]) % d

\* Short division of w by the small natural d: <<quotient limbs, remainder>>.
DivSmall(w, d) ==
  <<AsSeq([i \in 1..Len(w) |-> (RemFrom(w, d, i + 1) * Radix + w[i]) \div d]),
    RemFrom(w, d, 1)>>

(***************************************************************************)
(* long long: the operations the program applies to it.                    *)
(***************************************************************************)
LLZero == Zeros(Limbs)
LLOne == NatLimbs(1, Limbs)

IsNegative(w) == w[Limbs] >= Radix \div 2

\* -w in two's complement (invert, add one).
Negate(w) == AddOne(AsSeq([i \in 1..Len(w) |-> Radix - 1 - w[i]]))

\* |w| as an unsigned 64-bit pattern (|LLONG_MIN| = 2^63 fits).
Magnitude(w) == IF IsNegative(w) THEN Negate(w) ELSE w

\* The long long whose value is the small integer v.
LL(v) == IF v < 0 THEN Negate(NatLimbs(-v, Limbs)) ELSE NatLimbs(v, Limbs)

\* n == 0
EqualsZero(n) == n = LLZero

\* RemTwo with the parity test inverted, as if the code tested n % 2 == 0.
RemTwoInverted(n) == IF n[1] % 2 = 0 THEN 1 ELSE 0

\* RemTwo as a floored remainder (always 0 or 1), as in languages whose %
\* takes the sign of the divisor.
RemTwoFloored(n) == n[1] % 2

\* n % 2 in C++: the remainder has the sign of the dividend.
RemTwo(n) == IF n[1] % 2 = 0 THEN 0 ELSE IF IsNegative(n) THEN -1 ELSE 1

\* Decrement that forgets to subtract, as if the code called binPow(a, n).
DecrementForgotten(n) == n

\* n - 1
Decrement(n) == SubOne(n)

\* n >> 1 with the sign bit kept (floor of n / 2).
ShiftRightArith(n) ==
  AsSeq([i \in 1..Limbs |->
           (n[i] \div 2) + (Radix \div 2) *
              (IF i < Limbs THEN n[i + 1] % 2 ELSE IF IsNegative(n) THEN 1 ELSE 0)])

\* DivTwo as a floored division (an arithmetic shift), which rounds -1 / 2 to -1.
DivTwoFloored(n) == ShiftRightArith(n)

\* DivTwo replaced by n - 1, as if the even branch too recursed on n - 1.
DivTwoAsDecrement(n) == SubOne(n)

\* n / 2 in C++: the quotient is truncated toward zero.
DivTwo(n) ==
  IF IsNegative(n) /\ n[1] % 2 = 1 THEN AddOne(ShiftRightArith(n))
  ELSE ShiftRightArith(n)

\* MulWrap on a 32-bit int, as if binPow were declared on int: the low 32 bits
\* of the product, sign-extended.
MulWrapNarrow(x, y) ==
  LET p == NatMul(x, y)
      half == Limbs \div 2
  IN AsSeq([i \in 1..Limbs |->
              IF i <= half THEN p[i] ELSE IF p[half] >= Radix \div 2 THEN Radix - 1 ELSE 0])

\* x * y as the hardware multiplies: the low 64 bits of the product.
MulWrap(x, y) == SubSeq(NatMul(x, y), 1, Limbs)

\* Whether the exact product x * y lies outside the range of long long, which
\* makes the multiplication x * y undefined behaviour.
MulOverflows(x, y) ==
  LET p == NatMul(Magnitude(x), Magnitude(y))
      lo == SubSeq(p, 1, Limbs)
      hi == SubSeq(p, Limbs + 1, 2 * Limbs)
      neg == IsNegative(x) # IsNegative(y)
  IN \/ ~IsZero(hi)
     \/ /\ IsNegative(lo)
        /\ ~(neg /\ lo = Negate(lo))

\* Signed comparison x < y.
LessThan(x, y) ==
  LET fx == [x EXCEPT ![Limbs] = (@ + Radix \div 2) % Radix]
      fy == [y EXCEPT ![Limbs] = (@ + Radix \div 2) % Radix]
  IN \E i \in 1..Limbs : fx[i] < fy[i] /\ \A j \in (i + 1)..Limbs : fx[j] = fy[j]


(***************************************************************************)
(* Stream extraction and insertion of long long.  Text is a sequence of    *)
(* one-character strings.                                                  *)
(***************************************************************************)
DigitChars == <<"0", "1", "2", "3", "4", "5", "6", "7", "8", "9">>

DigitValue(c) == CHOOSE d \in 0..9 : DigitChars[d + 1] = c

\* Decimal conversion works ChunkDigits digits at a time.
ChunkDigits == 4
ChunkRadix == 10 ^ ChunkDigits

RECURSIVE IntDigits(_)
\* The decimal digits of the small natural k, most significant first.
IntDigits(k) ==
  IF k < 10 THEN <<DigitChars[k + 1]>>
  ELSE Append(IntDigits(k \div 10), DigitChars[(k % 10) + 1])

\* The ChunkDigits decimal digits of v < ChunkRadix, leading zeros included.
PadDigits(v) ==
  AsSeq([i \in 1..ChunkDigits |-> DigitChars[((v \div (10 ^ (ChunkDigits - i))) % 10) + 1]])

RECURSIVE ChunkValue(_)
\* The value of at most ChunkDigits decimal digits.
ChunkValue(text) ==
  IF text = <<>> THEN 0
  ELSE 10 * ChunkValue(SubSeq(text, 1, Len(text) - 1)) + DigitValue(text[Len(text)])

RECURSIVE ParseDigits(_)
\* The value of the decimal digits text, on Limbs limbs.
ParseDigits(text) ==
  IF Len(text) <= ChunkDigits THEN NatLimbs(ChunkValue(text), Limbs)
  ELSE MulSmallAdd(ParseDigits(SubSeq(text, 1, Len(text) - ChunkDigits)), ChunkRadix,
                   ChunkValue(SubSeq(text, Len(text) - ChunkDigits + 1, Len(text))))

\* cin >> value on one token: an optional sign, then decimal digits.
ParseLL(token) ==
  LET signed == Head(token) \in {"-", "+"}
      mag == ParseDigits(IF signed THEN Tail(token) ELSE token)
  IN IF Head(token) = "-" THEN Negate(mag) ELSE mag

RECURSIVE FormatNat(_)
\* The decimal digits of the unsigned limb sequence w, most significant first.
FormatNat(w) ==
  LET qr == DivSmall(w, ChunkRadix)
  IN IF IsZero(qr[1]) THEN IntDigits(qr[2])
     ELSE FormatNat(qr[1]) \o PadDigits(qr[2])

\* cout << value: a minus sign for a negative value, then its decimal digits.
FormatLL(w) ==
  IF IsNegative(w) THEN <<"-">> \o FormatNat(Magnitude(w)) ELSE FormatNat(w)

\* The token a user types for the small integer k.
IntToken(k) == IF k < 0 THEN <<"-">> \o IntDigits(-k) ELSE IntDigits(k)

(***************************************************************************)
(* binPow as a function: the value a call returns when every product is    *)
(* the wrapped one.                                                        *)
(***************************************************************************)
RECURSIVE binPow(_, _)
binPow(a, n) ==
  IF EqualsZero(n) THEN LLOne
  ELSE IF RemTwo(n) = 1 THEN MulWrap(binPow(a, Decrement(n)), a)
  ELSE LET b == binPow(a, DivTwo(n)) IN MulWrap(b, b)

(***************************************************************************)
(* The program as a state machine.                                         *)
(*                                                                         *)
(*   stdin          the tokens on standard input                           *)
(*   consumed       how many of them have been extracted                   *)
(*   stdout         the text written to standard output                    *)
(*   number, power  RunMain's locals (Indeterminate until read)            *)
(*   pc             where main is: "read", "call", "binPow", "print",      *)
(*                  "done", or "trap" (aborted by a trapping overflow)     *)
(*   stack          the activation records of binPow, innermost last:      *)
(*                  [a, n, at], at = "entry" | "odd" | "even" saying       *)
(*                  which recursive call the record is waiting for         *)
(*   ret            the value the last finished call of binPow returned    *)
(*   mults, calls   how many multiplications and how many recursive calls  *)
(*                  binPow has executed so far                             *)
(*   overflowed     whether some product so far was out of range           *)
(***************************************************************************)
VARIABLES stdin, consumed, stdout, number, power, pc, stack, ret, mults, calls, overflowed

vars == <<stdin, consumed, stdout, number, power, pc, stack, ret, mults, calls, overflowed>>

\* A local that has been declared and not yet assigned, or no value at all.
Indeterminate == <<>>

LLMaxToken ==
  <<"9", "2", "2", "3", "3", "7", "2", "0", "3", "6", "8", "5", "4", "7", "7", "5", "8", "0", "7">>
LLMinToken ==
  <<"-", "9", "2", "2", "3", "3", "7", "2", "0", "3", "6", "8", "5", "4", "7", "7", "5", "8", "0", "8">>

\* The inputs enumerated: small bases with every exponent of -MaxNegExp .. MaxExp
\* and with LLONG_MIN; bases near the 32-bit
\* and 64-bit boundaries with the exponents 0 .. MaxBigExp.
SmallBaseTokens == {IntToken(k) : k \in {-3, -2, -1, 0, 1, 2, 3, 5, 10}}
BigBaseTokens ==
  { <<"4", "2", "9", "4", "9", "6", "7", "2", "9", "6">>,
    <<"3", "0", "3", "7", "0", "0", "0", "5", "0", "0">>,
    <<"3", "0", "3", "7", "0", "0", "0", "4", "9", "9">>,
    <<"-", "2", "1", "4", "7", "4", "8", "3", "6", "4", "8">>,
    <<"2", "0", "9", "7", "1", "5", "2">>,
    <<"-", "2", "0", "9", "7", "1", "5", "2">>,
    LLMaxToken, LLMinToken }
Inputs ==
  (SmallBaseTokens \X ({IntToken(k) : k \in (-MaxNegExp)..MaxExp} \cup {LLMinToken}))
    \cup (BigBaseTokens \X {IntToken(k) : k \in 0..MaxBigExp})

\* The state when main starts: two well-formed integers wait on standard input.
Init ==
  /\ stdin \in Inputs
  /\ consumed = 0
  /\ stdout = <<>>
  /\ number = Indeterminate
  /\ power = Indeterminate
  /\ pc = "read"
  /\ stack = <<>>
  /\ ret = Indeterminate
  /\ mults = 0
  /\ calls = 0
  /\ overflowed = FALSE

Top == stack[Len(stack)]
Pop == SubSeq(stack, 1, Len(stack) - 1)
Frame(a, n) == [a |-> a, n |-> n, at |-> "entry"]

\* ReadInput with the two extractions swapped: cin >> power >> number.
ReadInputSwapped ==
  /\ pc = "read"
  /\ power' = ParseLL(stdin[consumed + 1])
  /\ number' = ParseLL(stdin[consumed + 2])
  /\ consumed' = consumed + 2
  /\ pc' = "call"
  /\ UNCHANGED <<stdin, stdout, stack, ret, mults, calls, overflowed>>

\* cin >> number >> power;
ReadInput ==
  /\ pc = "read"
  /\ number' = ParseLL(stdin[consumed + 1])
  /\ power' = ParseLL(stdin[consumed + 2])
  /\ consumed' = consumed + 2
  /\ pc' = "call"
  /\ UNCHANGED <<stdin, stdout, stack, ret, mults, calls, overflowed>>

\* RunMain calls binPow(number, power).
CallBinPow ==
  /\ pc = "call"
  /\ stack' = <<Frame(number, power)>>
  /\ pc' = "binPow"
  /\ UNCHANGED <<stdin, consumed, stdout, number, power, ret, mults, calls, overflowed>>

\* The innermost call returns v to its caller.
ReturnValue(v) ==
  /\ ret' = v
  /\ stack' = Pop
  /\ pc' = IF Len(stack) = 1 THEN "print" ELSE "binPow"

\* BaseCase returning 0 instead of 1.
BaseCaseReturnsZero ==
  /\ pc = "binPow"
  /\ Top.at = "entry"
  /\ EqualsZero(Top.n)
  /\ ReturnValue(LLZero)
  /\ UNCHANGED <<stdin, consumed, stdout, number, power, mults, calls, overflowed>>

\* if (n == 0) return 1;
BaseCase ==
  /\ pc = "binPow"
  /\ Top.at = "entry"
  /\ EqualsZero(Top.n)
  /\ ReturnValue(LLOne)
  /\ UNCHANGED <<stdin, consumed, stdout, number, power, mults, calls, overflowed>>

\* The recursive call binPow(a, m) made by the innermost call, which then
\* waits for it at `at`.
Recurse(m, at) ==
  /\ stack' = Append([stack EXCEPT ![Len(stack)].at = at], Frame(Top.a, m))
  /\ calls' = calls + 1
  /\ UNCHANGED <<stdin, consumed, stdout, number, power, pc, ret, mults, overflowed>>

\* if (n % 2 == 1) ... binPow(a, n-1) ...
OddCall ==
  /\ pc = "binPow"
  /\ Top.at = "entry"
  /\ ~EqualsZero(Top.n)
  /\ RemTwo(Top.n) = 1
  /\ Recurse(Decrement(Top.n), "odd")

\* else ... binPow(a, n/2) ...
EvenCall ==
  /\ pc = "binPow"
  /\ Top.at = "entry"
  /\ ~EqualsZero(Top.n)
  /\ RemTwo(Top.n) # 1
  /\ Recurse(DivTwo(Top.n), "even")

\* return x * y; a product out of the range of long long is undefined
\* behaviour: the build either keeps the low 64 bits or traps.
ReturnProduct(x, y) ==
  /\ mults' = mults + 1
  /\ overflowed' = (overflowed \/ MulOverflows(x, y))
  /\ \/ ReturnValue(MulWrap(x, y))
     \/ /\ MulOverflows(x, y)
        /\ pc' = "trap"
        /\ UNCHANGED <<stack, ret>>
  /\ UNCHANGED <<stdin, consumed, stdout, number, power, calls>>

\* OddReturn without the factor: return binPow(a, n-1).
OddReturnWithoutFactor ==
  /\ pc = "binPow"
  /\ Top.at = "odd"
  /\ ReturnValue(ret)
  /\ UNCHANGED <<stdin, consumed, stdout, number, power, mults, calls, overflowed>>

\* OddReturn multiplying by the exponent: return binPow(a, n-1) * n.
OddReturnTimesExponent ==
  /\ pc = "binPow"
  /\ Top.at = "odd"
  /\ ReturnProduct(ret, Top.n)

\* return binPow(a, n-1) * a;
OddReturn ==
  /\ pc = "binPow"
  /\ Top.at = "odd"
  /\ ReturnProduct(ret, Top.a)

\* long long b = binPow(a, n/2); return b * b;
EvenReturn ==
  /\ pc = "binPow"
  /\ Top.at = "even"
  /\ LET b == ret IN ReturnProduct(b, b)

\* cout << binPow(number, power) << '\n';
WriteOutput ==
  /\ pc = "print"
  /\ stdout' = FormatLL(ret) \o <<"\n">>
  /\ pc' = "done"
  /\ UNCHANGED <<stdin, consumed, number, power, stack, ret, mults, calls, overflowed>>

Next ==
  \/ ReadInput
  \/ CallBinPow
  \/ BaseCase
  \/ OddCall
  \/ EvenCall
  \/ OddReturn
  \/ EvenReturn
  \/ WriteOutput

Spec == Init /\ [][Next]_vars

(***************************************************************************)
(* Mathematics the properties are stated in: the exact power, computed on  *)
(* unbounded naturals by repeated multiplication.                          *)
(***************************************************************************)
RECURSIVE Trim(_)
\* w without its leading (most significant) zero limbs; <<>> is zero.
Trim(w) == IF w # <<>> /\ w[Len(w)] = 0 THEN Trim(SubSeq(w, 1, Len(w) - 1)) ELSE w

\* The value of a long long known to lie in 0 .. 2^24-1.
SmallValue(w) == w[1] + Radix * w[2] + Radix * Radix * w[3]

RECURSIVE NatPow(_, _)
\* m^k, exactly: the product of k factors m, taken half and half.
NatPow(m, k) ==
  IF k = 0 THEN <<1>>
  ELSE IF k = 1 THEN m
  ELSE Trim(NatMul(NatPow(m, k \div 2), NatPow(m, k - (k \div 2))))

\* |a^n|, exactly, for n >= 0.
ExactMagnitude(a, n) ==
  LET m == Trim(Magnitude(a))
  IN IF EqualsZero(n) THEN <<1>>
     ELSE IF Len(m) = 0 \/ m = <<1>> THEN m
     ELSE NatPow(m, SmallValue(n))

\* Whether a^n < 0, for n >= 0.
ExactIsNegative(a, n) == IsNegative(a) /\ n[1] % 2 = 1 /\ ~IsZero(a)

\* a^n reduced modulo 2^64 and read as a two's-complement long long.
ExactWrapped(a, n) ==
  LET mag == ExactMagnitude(a, n)
      low == AsSeq([i \in 1..Limbs |-> IF i <= Len(mag) THEN mag[i] ELSE 0])
  IN IF ExactIsNegative(a, n) THEN Negate(low) ELSE low

\* Whether a^n lies in the range of long long, -2^63 .. 2^63-1.
ExactInRange(a, n) ==
  LET mag == ExactMagnitude(a, n)
      low == AsSeq([i \in 1..Limbs |-> IF i <= Len(mag) THEN mag[i] ELSE 0])
  IN /\ Len(mag) <= Limbs
     /\ \/ ~IsNegative(low)
        \/ ExactIsNegative(a, n) /\ low = Negate(low)

RECURSIVE Log2Small(_)
Log2Small(v) == IF v <= 1 THEN 0 ELSE 1 + Log2Small(v \div 2)

\* floor(log2(w)) for a long long w >= 1.
FloorLog2(w) ==
  LET t == Trim(w) IN Log2Small(Radix) * (Len(t) - 1) + Log2Small(t[Len(t)])

\* Where the run is.
InputRead == pc # "read"
NonNegativeExponent == InputRead /\ ~IsNegative(power)
PositiveExponent == InputRead /\ LessThan(LLZero, power)
NegativeExponent == InputRead /\ IsNegative(power)
Returned == pc \in {"print", "done"}
Ended == pc \in {"done", "trap"}

(***************************************************************************)
(* The properties.                                                         *)
(***************************************************************************)

C2_Recurrence ==
  (PositiveExponent /\ Returned) =>
    ret = MulWrap(binPow(number, Decrement(power)), number)

C2_Witness ==
  /\ pc = "done"
  /\ PositiveExponent
  /\ RemTwo(power) = 0
  /\ overflowed
  /\ ~IsZero(ret)

\* C3.  binPow(base, 0) returns 1 for every base, base 0 included, without a
\* multiplication and without a recursive call.
C3_ZeroExponent ==
  (InputRead /\ EqualsZero(power)) =>
    /\ calls = 0
    /\ mults = 0
    /\ Len(stack) <= 1
    /\ pc # "trap"
    /\ Returned => ret = LLOne

C3_Witness ==
  /\ pc = "done"
  /\ EqualsZero(power)
  /\ EqualsZero(number)
  /\ ret = LLOne
  /\ calls = 0

\* C4.  binPow(0, exponent) returns 0 for every exponent > 0.
C4_ZeroBase ==
  (PositiveExponent /\ EqualsZero(number)) =>
    /\ pc # "trap"
    /\ Returned => ret = LLZero

C4_Witness ==
  /\ pc = "done"
  /\ EqualsZero(number)
  /\ PositiveExponent
  /\ ret = LLZero
  /\ mults > 1

\* C5.  binPow(1, exponent) returns 1 for every exponent >= 0.
C5_UnitBase ==
  (NonNegativeExponent /\ number = LLOne) =>
    /\ pc # "trap"
    /\ Returned => ret = LLOne

C5_Witness ==
  /\ pc = "done"
  /\ number = LLOne
  /\ PositiveExponent
  /\ ret = LLOne
  /\ mults > 1

\* What the run has written once it is over, for the input <<base, exponent>>.
Scenario(base, exponent, text) ==
  (stdin = <<IntToken(base), IntToken(exponent)>> /\ pc = "done") => stdout = text \o <<"\n">>

\* C6.  The program reads two integers, the first as the base and the second
\* as the exponent, calls binPow(base, exponent) and writes exactly one value,
\* the one that call returned, followed by a newline and nothing before; the
\* inputs (2,10), (3,0), (-2,3), (5,1), (0,5), (2,62) give 1024, 1, -8, 5, 0,
\* 4611686018427387904, the last without any product overflowing.
C6_ProgramOutput ==
  /\ pc # "done" => stdout = <<>>
  /\ pc # "read" =>
       /\ consumed = 2
       /\ number = ParseLL(stdin[1])
       /\ power = ParseLL(stdin[2])
  /\ stack # <<>> => stack[1].a = number /\ stack[1].n = power
  /\ pc = "print" => stack = <<>>
  /\ pc = "done" => stdout = FormatLL(ret) \o <<"\n">>
  /\ Scenario(2, 10, <<"1", "0", "2", "4">>)
  /\ Scenario(3, 0, <<"1">>)
  /\ Scenario(-2, 3, <<"-", "8">>)
  /\ Scenario(5, 1, <<"5">>)
  /\ Scenario(0, 5, <<"0">>)
  /\ Scenario(2, 62, <<"4", "6", "1", "1", "6", "8", "6", "0", "1", "8",
                       "4", "2", "7", "3", "8", "7", "9", "0", "4">>)
  /\ stdin \in {<<IntToken(2), IntToken(10)>>, <<IntToken(3), IntToken(0)>>,
                <<IntToken(-2), IntToken(3)>>, <<IntToken(5), IntToken(1)>>,
                <<IntToken(0), IntToken(5)>>, <<IntToken(2), IntToken(62)>>}
       => ~overflowed /\ pc # "trap"

C6_Witness ==
  /\ pc = "done"
  /\ stdin = <<IntToken(2), IntToken(62)>>
  /\ ~overflowed
  /\ mults = 10
  /\ stdout = <<"4", "6", "1", "1", "6", "8", "6", "0", "1", "8",
                "4", "2", "7", "3", "8", "7", "9", "0", "4", "\n">>

\* C7.  For every exponent n >= 1 the multiplications executed number at most
\* 2*floor(log2(n)) + 1 and the recursion is at most one deeper than that: the
\* call made from an odd step is never itself an odd step.
C7_LogarithmicWork ==
  PositiveExponent =>
    /\ mults <= 2 * FloorLog2(power) + 1
    /\ Len(stack) <= 2 * FloorLog2(power) + 2
    /\ \A i \in 1..(Len(stack) - 1) : stack[i].at = "odd" => stack[i + 1].at # "odd"

C7_Witness ==
  /\ pc = "done"
  /\ PositiveExponent
  /\ mults = 2 * FloorLog2(power) + 1
  /\ mults > 10

\* The number of bits of a long long n >= 0.
BitLength(n) == IF EqualsZero(n) THEN 0 ELSE FloorLog2(n) + 1

\* A bound on what is left of the recursion: the records still to be popped,
\* and twice the weight of the exponent the innermost call has yet to work on.
Measure ==
  IF pc # "binPow" THEN 0
  ELSE Len(stack) +
       (IF Top.at = "entry" THEN 2 * (2 * BitLength(Top.n) + ((Top.n)[1] % 2)) ELSE 0)

\* binPow is never stuck: the innermost call is at its entry, or has the value
\* of the call it waited for.
CanStep == stack # <<>> /\ (Top.at = "entry" \/ ret # Indeterminate)

\* Every call on the stack but the outermost was made by the record below it,
\* from its odd branch with n - 1 or from its else branch with n / 2, and its
\* exponent is non-negative and strictly smaller than its caller's.
Descends ==
  /\ \A i \in 1..Len(stack) : ~IsNegative(stack[i].n)
  /\ \A i \in 1..(Len(stack) - 1) :
       /\ LessThan(stack[i + 1].n, stack[i].n)
       /\ \/ stack[i].at = "odd" /\ stack[i + 1].n = SubOne(stack[i].n)
          \/ stack[i].at = "even" /\ stack[i + 1].n = ShiftRightArith(stack[i].n)

C8_Step ==
  NonNegativeExponent' =>
    /\ Descends'
    /\ pc' = "binPow" => CanStep'
    /\ pc = "binPow" => Measure' < Measure

\* C8.  For every exponent >= 0 binPow terminates: each recursive call is made
\* with an exponent that is non-negative and strictly smaller than its
\* caller's (n-1 from the odd branch, n/2 from the even one), binPow can
\* always take a step, and every step of it lowers a natural-number measure,
\* so the base case is reached and the recursion unwinds.
C8_Terminates == [][C8_Step]_vars

C8_Witness ==
  /\ NonNegativeExponent
  /\ pc = "binPow"
  /\ Top.at = "entry"
  /\ EqualsZero(Top.n)
  /\ Len(stack) > 10

\* C9 (as amended).  For a negative exponent the recursion of binPow does
\* reach the base case: the exponent is never decremented, each call halves
\* it toward zero, so it strictly rises to 0 within Limbs * 8 halvings, and
\* binPow returns.
C9_NegativeExponentReachesBase ==
  NegativeExponent =>
    /\ \A i \in 1..Len(stack) : IsNegative(stack[i].n) \/ EqualsZero(stack[i].n)
    /\ \A i \in 1..(Len(stack) - 1) :
         /\ IsNegative(stack[i].n)
         /\ LessThan(stack[i].n, stack[i + 1].n)
    /\ Len(stack) <= Limbs * Log2Small(Radix) + 1
    /\ pc = "binPow" => CanStep
    /\ pc # "trap"

C9_Witness ==
  /\ NegativeExponent
  /\ pc = "binPow"
  /\ Top.at = "entry"
  /\ EqualsZero(Top.n)
  /\ Len(stack) = Limbs * Log2Small(Radix) + 1

\* C9 as claimed: for a negative exponent no call of the recursion has the
\* exponent 0 and no call returns a value.
C9_AsClaimed ==
  NegativeExponent =>
    /\ \A i \in 1..Len(stack) : ~EqualsZero(stack[i].n)
    /\ ret = Indeterminate

\* C10.  A call binPow(base, n) with n < 0 never takes the odd branch, only
\* ever recurses on n / 2 (truncated toward zero), and returns 1 for every base.
C10_NegativeExponentReturnsOne ==
  NegativeExponent =>
    /\ \A i \in 1..Len(stack) : stack[i].at # "odd"
    /\ \A i \in 1..(Len(stack) - 1) : stack[i + 1].n = DivTwo(stack[i].n)
    /\ pc # "trap"
    /\ Returned => ret = LLOne
    /\ pc = "done" => stdout = <<"1", "\n">>

C10_Witness ==
  /\ NegativeExponent
  /\ pc = "done"
  /\ ret = LLOne
  /\ number = LL(-3)
  /\ power = LL(-5)
  /\ mults = 3

=============================================================================
